---- MODULE Spec2Model ----
(***************************************************************************)
(* Model of ethereumetl/service/token_transfer_extractor.py.               *)
(*                                                                         *)
(* Strings are sequences of one-character strings, so that slicing,        *)
(* chunking, prefixing and case folding are computed character by          *)
(* character.  Words keep their real width (64 hex characters) and         *)
(* addresses theirs (40 hex characters).                                   *)
(***************************************************************************)
EXTENDS Integers, Sequences, FiniteSets, TLC

VARIABLES op, pc, receipt_log, ret, data, words, param, address

vars == <<op, pc, receipt_log, ret, data, words, param, address>>

(***************************************************************************)
(* Bounds of the explored inputs.                                          *)
(***************************************************************************)
\* most data words of a log handed to extract_transfer_from_log
MaxDataWords == 8
\* most topics of a log
MaxTopics == 5
\* most 64-character words of a blob handed to split_to_words directly
MaxBlobWords == 3
\* largest number stored in a data word
MaxWordValue == 2

(***************************************************************************)
(* Python values.                                                          *)
(***************************************************************************)
\* None where a str is expected (no real string has a 4-character element)
None == <<"None">>
\* None where a list of str is expected (receipt_log.topics)
NoneList == <<None>>
\* None where an int is expected (hex_to_dec only yields naturals)
NoneInt == 0 - 1

Prefix0x == <<"0", "x">>

HexDigits ==
  << "0", "1", "2", "3", "4", "5", "6", "7",
     "8", "9", "a", "b", "c", "d", "e", "f" >>

\* s[from:] with 0-based from, as Python slices
SliceFrom(s, from) == IF from >= Len(s) THEN <<>> ELSE SubSeq(s, from + 1, Len(s))

\* s[-n:]
SliceLast(s, n) == IF n >= Len(s) THEN s ELSE SubSeq(s, Len(s) - n + 1, Len(s))

\* s[i] with 0-based i
At(s, i) == s[i + 1]

\* is 0-based index i inside list s (otherwise Python raises IndexError)
InRange(s, i) == i >= 0 /\ i < Len(s)

LowerChar(c) ==
  CASE c = "A" -> "a" [] c = "B" -> "b" [] c = "C" -> "c"
    [] c = "D" -> "d" [] c = "E" -> "e" [] c = "F" -> "f"
    [] c = "X" -> "x" [] OTHER -> c

UpperChar(c) ==
  CASE c = "a" -> "A" [] c = "b" -> "B" [] c = "c" -> "C"
    [] c = "d" -> "D" [] c = "e" -> "E" [] c = "f" -> "F"
    [] OTHER -> c

\* str.lower()
lower(s) == [i \in 1..Len(s) |-> LowerChar(s[i])]

\* casefold left out: the topic is compared as it was received
casefold_omitted(s) == s

\* str.casefold(), which on these ASCII strings lowers the letters
casefold(s) == lower(s)

(***************************************************************************)
(* Collaborators of ethereumetl.utils.                                     *)
(***************************************************************************)
\* to_normalized_address: None stays None, a string is lower-cased
to_normalized_address(a) == IF a = None THEN None ELSE lower(a)

DigitValue(c) == CHOOSE v \in 0..15 : HexDigits[v + 1] = LowerChar(c)

RECURSIVE Power16(_)
Power16(k) == IF k = 0 THEN 1 ELSE 16 * Power16(k - 1)

\* the sum of digit * 16^place over the given positions of s
RECURSIVE PlaceValues(_, _)
PlaceValues(s, positions) ==
  IF positions = {} THEN 0
  ELSE LET i == CHOOSE j \in positions : TRUE
       IN  DigitValue(s[i]) * Power16(Len(s) - i) + PlaceValues(s, positions \ {i})

\* the number a string of hex digits denotes; zero digits add nothing
HexValue(s) == PlaceValues(s, {i \in 1..Len(s) : DigitValue(s[i]) /= 0})

HasPrefix0x(s) == Len(s) >= 2 /\ s[1] = "0" /\ LowerChar(s[2]) = "x"

\* hex_to_dec: the unsigned integer of a hex string, "0x" prefix optional
hex_to_dec(s) == HexValue(IF HasPrefix0x(s) THEN SliceFrom(s, 2) ELSE s)

\* chunk_string: consecutive substrings of the given width, the last possibly short
chunk_string(s, width) ==
  LET count == (Len(s) + width - 1) \div width
      end(i) == IF i * width < Len(s) THEN i * width ELSE Len(s)
  IN  [i \in 1..count |-> SubSeq(s, (i - 1) * width + 1, end(i))]

(***************************************************************************)
(* Event signatures.                                                       *)
(***************************************************************************)
TRANSFER_EVENT_TOPIC ==
  << "0", "x", "d", "d", "f", "2", "5", "2", "a", "d", "1",
     "b", "e", "2", "c", "8", "9", "b", "6", "9", "c", "2",
     "b", "0", "6", "8", "f", "c", "3", "7", "8", "d", "a",
     "a", "9", "5", "2", "b", "a", "7", "f", "1", "6", "3",
     "c", "4", "a", "1", "1", "6", "2", "8", "f", "5", "5",
     "a", "4", "d", "f", "5", "2", "3", "b", "3", "e", "f" >>

TRANSFER_ERC1155_EVENT_TOPIC ==
  << "0", "x", "c", "3", "d", "5", "8", "1", "6", "8", "c",
     "5", "a", "e", "7", "3", "9", "7", "7", "3", "1", "d",
     "0", "6", "3", "d", "5", "b", "b", "f", "3", "d", "6",
     "5", "7", "8", "5", "4", "4", "2", "7", "3", "4", "3",
     "f", "4", "c", "0", "8", "3", "2", "4", "0", "f", "7",
     "a", "a", "c", "a", "a", "2", "d", "0", "f", "6", "2" >>

TRANSFER_BATCH_ERC1155_EVENT_TOPIC ==
  << "0", "x", "4", "a", "3", "9", "d", "c", "0", "6", "d",
     "4", "c", "0", "d", "b", "c", "6", "4", "b", "7", "0",
     "a", "f", "9", "0", "f", "d", "6", "9", "8", "a", "2",
     "3", "3", "a", "5", "1", "8", "a", "a", "5", "d", "0",
     "7", "e", "5", "9", "5", "d", "9", "8", "3", "b", "8",
     "c", "0", "5", "2", "6", "c", "8", "f", "7", "f", "b" >>

(***************************************************************************)
(* split_to_words and word_to_address.                                     *)
(***************************************************************************)
WordChars == 64
AddressChars == 40

PrefixWord(word) == Prefix0x \o word

split_to_words(d) ==
  IF d /= None /\ Len(d) > 0 /\ Len(d) > 2
  THEN LET data_without_0x == SliceFrom(d, 2)
           chunks == chunk_string(data_without_0x, WordChars)
       IN  [i \in 1..Len(chunks) |-> PrefixWord(chunks[i])]
  ELSE <<>>

word_to_address(p) ==
  IF p = None THEN None
  ELSE IF Len(p) >= AddressChars
       THEN to_normalized_address(Prefix0x \o SliceLast(p, AddressChars))
       ELSE to_normalized_address(p)

(***************************************************************************)
(* The outcome of one call of the extractor: what it returns or raises,    *)
(* how many warnings it logged and which decoder ran.                      *)
(***************************************************************************)
Outcome(kind, transfers, warnings, decoder) ==
  [kind |-> kind, transfers |-> transfers, warnings |-> warnings, decoder |-> decoder]

NotCalled == Outcome("pending", <<>>, 0, "none")

EthTokenTransfer(token_address, from_address, to_address, value, token_id, log) ==
  [ token_address    |-> token_address,
    from_address     |-> from_address,
    to_address       |-> to_address,
    value            |-> value,
    token_id         |-> token_id,
    transaction_hash |-> log.transaction_hash,
    log_index        |-> log.log_index,
    block_number     |-> log.block_number ]

\* handle_transfer reading from and to from each other's index
handle_transfer_swapped(log, topics) ==
  LET topics_with_data == topics \o split_to_words(log.data) IN
  IF Len(topics_with_data) /= 4
  THEN Outcome("None", <<>>, 1, "transfer")
  ELSE Outcome("list",
               << EthTokenTransfer(to_normalized_address(log.address),
                                   word_to_address(At(topics_with_data, 2)),
                                   word_to_address(At(topics_with_data, 1)),
                                   hex_to_dec(At(topics_with_data, 3)),
                                   NoneInt, log) >>,
               0, "transfer")

\* handle_transfer rejecting only tapes of fewer than 4 words
handle_transfer_at_least(log, topics) ==
  LET topics_with_data == topics \o split_to_words(log.data) IN
  IF Len(topics_with_data) < 4
  THEN Outcome("None", <<>>, 1, "transfer")
  ELSE Outcome("list",
               << EthTokenTransfer(to_normalized_address(log.address),
                                   word_to_address(At(topics_with_data, 1)),
                                   word_to_address(At(topics_with_data, 2)),
                                   hex_to_dec(At(topics_with_data, 3)),
                                   NoneInt, log) >>,
               0, "transfer")

\* handle_transfer copying the log's address without normalizing it
handle_transfer_raw_address(log, topics) ==
  LET topics_with_data == topics \o split_to_words(log.data) IN
  IF Len(topics_with_data) /= 4
  THEN Outcome("None", <<>>, 1, "transfer")
  ELSE Outcome("list",
               << EthTokenTransfer(log.address,
                                   word_to_address(At(topics_with_data, 1)),
                                   word_to_address(At(topics_with_data, 2)),
                                   hex_to_dec(At(topics_with_data, 3)),
                                   NoneInt, log) >>,
               0, "transfer")

handle_transfer(log, topics) ==
  LET topics_with_data == topics \o split_to_words(log.data) IN
  IF Len(topics_with_data) /= 4
  THEN Outcome("None", <<>>, 1, "transfer")
  ELSE Outcome("list",
               << EthTokenTransfer(to_normalized_address(log.address),
                                   word_to_address(At(topics_with_data, 1)),
                                   word_to_address(At(topics_with_data, 2)),
                                   hex_to_dec(At(topics_with_data, 3)),
                                   NoneInt, log) >>,
               0, "transfer")

\* handle_erc1155_transfer without the check of the topics count
handle_erc1155_transfer_any_topics(log, topics) ==
  LET topics_with_data == topics \o split_to_words(log.data) IN
  IF Len(topics_with_data) /= 6
  THEN Outcome("None", <<>>, 1, "erc1155")
  ELSE Outcome("list",
               << EthTokenTransfer(to_normalized_address(log.address),
                                   word_to_address(At(topics_with_data, 2)),
                                   word_to_address(At(topics_with_data, 3)),
                                   hex_to_dec(At(topics_with_data, 5)),
                                   hex_to_dec(At(topics_with_data, 4)), log) >>,
               0, "erc1155")

handle_erc1155_transfer(log, topics) ==
  LET topics_with_data == topics \o split_to_words(log.data) IN
  IF Len(topics_with_data) /= 6 \/ Len(topics) /= 4
  THEN Outcome("None", <<>>, 1, "erc1155")
  ELSE Outcome("list",
               << EthTokenTransfer(to_normalized_address(log.address),
                                   word_to_address(At(topics_with_data, 2)),
                                   word_to_address(At(topics_with_data, 3)),
                                   hex_to_dec(At(topics_with_data, 5)),
                                   hex_to_dec(At(topics_with_data, 4)), log) >>,
               0, "erc1155")

\* the for loop of the batch decoder from index i on; an index outside the
\* tape raises IndexError and the records built so far are lost
RECURSIVE batch_loop(_, _, _, _, _)
batch_loop(log, topics_with_data, ids_count, i, token_transfers) ==
  IF i >= ids_count
  THEN Outcome("list", token_transfers, 0, "batch")
  ELSE IF ~InRange(topics_with_data, 6 + 1 + i)
            \/ ~InRange(topics_with_data, 6 + ids_count + 1 + i + 1)
       THEN Outcome("IndexError", <<>>, 0, "batch")
       ELSE LET token_id == hex_to_dec(At(topics_with_data, 6 + 1 + i))
                value == hex_to_dec(At(topics_with_data, 6 + ids_count + 1 + i + 1))
                token_transfer ==
                  EthTokenTransfer(to_normalized_address(log.address),
                                   word_to_address(At(topics_with_data, 2)),
                                   word_to_address(At(topics_with_data, 3)),
                                   value, token_id, log)
            IN  batch_loop(log, topics_with_data, ids_count, i + 1,
                           Append(token_transfers, token_transfer))

\* handle_erc1155_batch_transfer without the comparison of the two counts
handle_erc1155_batch_transfer_unchecked(log, topics) ==
  LET topics_with_data == topics \o split_to_words(log.data) IN
  IF Len(topics) /= 4
  THEN Outcome("None", <<>>, 1, "batch")
  ELSE IF ~InRange(topics_with_data, 6)
  THEN Outcome("IndexError", <<>>, 0, "batch")
  ELSE LET ids_count == hex_to_dec(At(topics_with_data, 6)) IN
       IF ~InRange(topics_with_data, 6 + ids_count + 1)
       THEN Outcome("IndexError", <<>>, 0, "batch")
       ELSE batch_loop(log, topics_with_data, ids_count, 0, <<>>)

handle_erc1155_batch_transfer(log, topics) ==
  LET topics_with_data == topics \o split_to_words(log.data) IN
  IF Len(topics) /= 4
  THEN Outcome("None", <<>>, 1, "batch")
  ELSE IF ~InRange(topics_with_data, 6)
  THEN Outcome("IndexError", <<>>, 0, "batch")
  ELSE LET ids_count == hex_to_dec(At(topics_with_data, 6)) IN
       IF ~InRange(topics_with_data, 6 + ids_count + 1)
       THEN Outcome("IndexError", <<>>, 0, "batch")
       ELSE LET values_count == hex_to_dec(At(topics_with_data, 6 + ids_count + 1)) IN
            IF ids_count /= values_count
            THEN Outcome("None", <<>>, 1, "batch")
            ELSE batch_loop(log, topics_with_data, ids_count, 0, <<>>)

extract_transfer_from_log(log) ==
  LET topics == log.topics IN
  IF topics = NoneList \/ Len(topics) < 1
  THEN Outcome("None", <<>>, 0, "none")
  ELSE IF casefold(At(topics, 0)) = TRANSFER_EVENT_TOPIC
  THEN handle_transfer(log, topics)
  ELSE IF casefold(At(topics, 0)) = TRANSFER_ERC1155_EVENT_TOPIC
  THEN handle_erc1155_transfer(log, topics)
  ELSE IF casefold(At(topics, 0)) = TRANSFER_BATCH_ERC1155_EVENT_TOPIC
  THEN handle_erc1155_batch_transfer(log, topics)
  ELSE Outcome("None", <<>>, 0, "none")

(***************************************************************************)
(* Inputs: logs, blobs and words.                                          *)
(***************************************************************************)
\* most data words of a log that does not carry the batch signature
MaxShapeWords == 4

Zeros(n) == [i \in 1..n |-> "0"]

\* a full word whose low-order characters are low
Word(low) == Prefix0x \o Zeros(WordChars - Len(low)) \o low

\* the word of a small number
NumberWord(n) == Word(<<HexDigits[n + 1]>>)

\* a word holding a mixed-case address below a non-zero padding character
AddressWord(low) ==
  Prefix0x \o Zeros(WordChars - AddressChars - 1) \o <<"7">>
           \o <<"A", "b">> \o Zeros(AddressChars - 2 - Len(low)) \o low

UpperHex(s) == [i \in 1..Len(s) |-> UpperChar(s[i])]

RECURSIVE Concat(_)
Concat(ws) == IF ws = <<>> THEN <<>> ELSE Head(ws) \o Concat(Tail(ws))

Unprefixed(word) == SliceFrom(word, 2)

Signatures ==
  {TRANSFER_EVENT_TOPIC, TRANSFER_ERC1155_EVENT_TOPIC, TRANSFER_BATCH_ERC1155_EVENT_TOPIC}

OtherTopic == Word(<<"E", "e">>)

FirstTopics == Signatures \cup {UpperHex(s) : s \in Signatures} \cup {OtherTopic}

\* the topic at 0-based position i >= 1: two addresses, then small numbers
TopicAt(i) ==
  IF i = 1 THEN AddressWord(<<"A", "1">>)
  ELSE IF i = 2 THEN AddressWord(<<"c", "2">>)
  ELSE Word(<<"D", HexDigits[i + 1]>>)

TopicLists ==
  {NoneList, <<>>} \cup
  { [i \in 1..n |-> IF i = 1 THEN first ELSE TopicAt(i - 1)] :
      first \in FirstTopics, n \in 1..MaxTopics }

\* data word at 0-based position i < 2 of a data part: the two array offsets
OffsetWord(i) == IF i = 0 THEN Word(<<"4", "0">>) ELSE Word(<<"c", "0">>)

\* the n words of a data part: the two offsets, then the numbers f gives
DataWords(n, f) ==
  [i \in 1..n |-> IF i <= 2 THEN OffsetWord(i - 1) ELSE NumberWord(f[i])]

\* a data part of n full words
DataOf(n, f) == Prefix0x \o Concat([i \in 1..n |-> Unprefixed(DataWords(n, f)[i])])

\* data parts that are absent, empty or end in a short chunk
OddData ==
  {None, <<>>, Prefix0x} \cup {DataOf(n, <<>>) \o <<"1">> : n \in 0..2}

BatchTopics ==
  [i \in 1..4 |-> IF i = 1 THEN TRANSFER_BATCH_ERC1155_EVENT_TOPIC ELSE TopicAt(i - 1)]

LogAddress == Prefix0x \o <<"D", "e">> \o Zeros(AddressChars - 4) \o <<"F", "9">>

Log(topics, d) ==
  [ address          |-> LogAddress,
    topics           |-> topics,
    data             |-> d,
    transaction_hash |-> <<"0", "x", "7", "a">>,
    log_index        |-> 5,
    block_number     |-> 17 ]

NoLog == Log(<<>>, None)

BlobWordLists(k) == {[i \in 1..k |-> NumberWord(f[i])] : f \in [1..k -> 0..MaxWordValue]}

\* blobs of 64*k hex characters, with the prefix and without it
WholeBlobs(k) ==
  LET bodies == {Concat([i \in 1..k |-> Unprefixed(ws[i])]) : ws \in BlobWordLists(k)}
  IN  bodies \cup {Prefix0x \o b : b \in bodies}

Blobs ==
  {None} \cup UNION {WholeBlobs(k) : k \in 0..MaxBlobWords}
         \cup {b \o <<"a", "B">> : b \in WholeBlobs(1)}

ParamLengths == {0, 1, 20, 38, 39, 40, 41, 64}

ParamBody(n) == [i \in 1..n |-> <<"A", "b", "3", "F">>[(i % 4) + 1]]

Params ==
  {None} \cup {ParamBody(n) : n \in ParamLengths}
         \cup {Prefix0x \o ParamBody(n) : n \in ParamLengths}
         \cup {TopicAt(i) : i \in 1..3}

(***************************************************************************)
(* The state machine: one call of one of the three functions.              *)
(***************************************************************************)
\* logs of every topics list with an odd data part or one of few words, and
\* batch logs of 4 topics with a data part of up to MaxDataWords words
InitExtract ==
  /\ op = "extract"
  /\ \/ \E t \in TopicLists, d \in OddData : receipt_log = Log(t, d)
     \/ \E t \in TopicLists, n \in 1..MaxShapeWords :
          \E f \in [3..n -> 0..MaxWordValue] : receipt_log = Log(t, DataOf(n, f))
     \/ \E n \in 1..MaxDataWords :
          \E f \in [3..n -> 0..MaxWordValue] : receipt_log = Log(BatchTopics, DataOf(n, f))
  /\ data = None /\ param = None

InitSplit ==
  /\ op = "split"
  /\ data \in Blobs
  /\ receipt_log = NoLog /\ param = None

InitAddress ==
  /\ op = "address"
  /\ param \in Params
  /\ receipt_log = NoLog /\ data = None

Init ==
  /\ pc = "call"
  /\ ret = NotCalled
  /\ words = <<>>
  /\ address = None
  /\ (InitExtract \/ InitSplit \/ InitAddress)

ExtractTransferFromLog ==
  /\ op = "extract" /\ pc = "call"
  /\ ret' = extract_transfer_from_log(receipt_log)
  /\ pc' = "done"
  /\ UNCHANGED <<op, receipt_log, data, words, param, address>>

SplitToWords ==
  /\ op = "split" /\ pc = "call"
  /\ words' = split_to_words(data)
  /\ pc' = "done"
  /\ UNCHANGED <<op, receipt_log, ret, data, param, address>>

WordToAddress ==
  /\ op = "address" /\ pc = "call"
  /\ address' = word_to_address(param)
  /\ pc' = "done"
  /\ UNCHANGED <<op, receipt_log, ret, data, words, param>>

Next == ExtractTransferFromLog \/ SplitToWords \/ WordToAddress

Spec == Init /\ [][Next]_vars

(***************************************************************************)
(* Properties.                                                             *)
(***************************************************************************)
Done(o) == op = o /\ pc = "done"

\* the combined word sequence of a log with topics
Tape(log) == log.topics \o split_to_words(log.data)

HasTopics(log) == log.topics /= NoneList /\ Len(log.topics) >= 1

SameIgnoringCase(a, b) ==
  Len(a) = Len(b) /\ \A i \in 1..Len(a) : LowerChar(a[i]) = LowerChar(b[i])

HasSignature(log, sig) == HasTopics(log) /\ SameIgnoringCase(log.topics[1], sig)

\* the canonical address in the low-order 40 characters of a full word
LowAddress(word) ==
  [i \in 1..(AddressChars + 2) |->
     IF i <= 2 THEN Prefix0x[i] ELSE LowerChar(word[Len(word) - AddressChars - 2 + i])]

NoExtraction(warnings) ==
  ret.kind = "None" /\ ret.transfers = <<>> /\ ret.warnings = warnings

IsBatchLog(log) ==
  HasSignature(log, TRANSFER_BATCH_ERC1155_EVENT_TOPIC) /\ Len(log.topics) = 4

\* the batch log's tape holds both length words
HasBothCounts(log) ==
  /\ IsBatchLog(log)
  /\ InRange(Tape(log), 6)
  /\ InRange(Tape(log), 6 + hex_to_dec(At(Tape(log), 6)) + 1)

IdsCount(log) == hex_to_dec(At(Tape(log), 6))

ValuesCount(log) == hex_to_dec(At(Tape(log), 6 + IdsCount(log) + 1))

\* C1: every call of extract_transfer_from_log ends in a list of records or
\* in the non-extraction result, never in a raised error; a batch log with 4
\* topics whose tape is too short for one of the indexes it reads ends in
\* non-extraction with a warning.
C1_NoRaisedError ==
  Done("extract") =>
    /\ ret.kind \in {"list", "None"}
    /\ (IsBatchLog(receipt_log) /\ ret.kind /= "list" => NoExtraction(1))

\* C2: a batch log with 4 topics whose ids length N equals its values length
\* yields exactly N records in index order, record i with token_id word[6+1+i]
\* and value word[6+N+1+i+1], all with from word[2], to word[3] and the log's
\* normalized address.
C2_BatchYieldsNRecords ==
  Done("extract") /\ HasBothCounts(receipt_log)
                  /\ IdsCount(receipt_log) = ValuesCount(receipt_log) =>
    LET tape == Tape(receipt_log)
        N == IdsCount(receipt_log)
    IN  /\ ret.kind = "list"
        /\ Len(ret.transfers) = N
        /\ \A i \in 0..(N - 1) :
             /\ At(ret.transfers, i).token_id = hex_to_dec(At(tape, 6 + 1 + i))
             /\ At(ret.transfers, i).value = hex_to_dec(At(tape, 6 + N + 1 + i + 1))
             /\ At(ret.transfers, i).from_address = LowAddress(At(tape, 2))
             /\ At(ret.transfers, i).to_address = LowAddress(At(tape, 3))
             /\ At(ret.transfers, i).token_address = lower(receipt_log.address)

BatchMismatch(log) == HasBothCounts(log) /\ IdsCount(log) /= ValuesCount(log)

\* C3: a batch log with 4 topics whose ids length at word[6] differs from the
\* values length at word[6+N+1] yields no record, the non-extraction result
\* and exactly one warning.
C3_BatchMismatchRejected ==
  Done("extract") /\ BatchMismatch(receipt_log) => NoExtraction(1)

C3_Witness ==
  Done("extract") /\ BatchMismatch(receipt_log) /\ IdsCount(receipt_log) = 1
                  /\ ValuesCount(receipt_log) = 2 /\ ret.warnings = 1

IsTransferLog(log) == HasSignature(log, TRANSFER_EVENT_TOPIC)

\* C4: a single-transfer log whose tape has exactly 4 words, however they are
\* divided between topics and data, yields exactly one record with from
\* word[1], to word[2], value word[3] and no token_id.
C4_TransferDecoded ==
  Done("extract") /\ IsTransferLog(receipt_log) /\ Len(Tape(receipt_log)) = 4 =>
    LET tape == Tape(receipt_log) IN
    /\ ret.kind = "list"
    /\ Len(ret.transfers) = 1
    /\ ret.transfers[1].from_address = LowAddress(At(tape, 1))
    /\ ret.transfers[1].to_address = LowAddress(At(tape, 2))
    /\ ret.transfers[1].value = hex_to_dec(At(tape, 3))
    /\ ret.transfers[1].token_id = NoneInt

\* from and to come from the data part and differ
C4_Witness ==
  /\ Done("extract") /\ IsTransferLog(receipt_log)
  /\ Len(receipt_log.topics) = 1 /\ Len(Tape(receipt_log)) = 4
  /\ ret.kind = "list"
  /\ ret.transfers[1].from_address /= ret.transfers[1].to_address
  /\ ret.transfers[1].value = 2

\* C5: a single-transfer log whose tape does not have 4 words, a short final
\* chunk counting as a word, yields no record, the non-extraction result and
\* exactly one warning.
C5_TransferWrongCountRejected ==
  Done("extract") /\ IsTransferLog(receipt_log) /\ Len(Tape(receipt_log)) /= 4 =>
    NoExtraction(1)

\* a tape of 5 words that ends in a short chunk
C5_Witness ==
  /\ Done("extract") /\ IsTransferLog(receipt_log)
  /\ Len(Tape(receipt_log)) = 5
  /\ Len(At(Tape(receipt_log), 4)) < WordChars + 2
  /\ ret.warnings = 1

IsSingleIdLog(log) == HasSignature(log, TRANSFER_ERC1155_EVENT_TOPIC)

\* C6: a TransferSingle log yields a record if and only if its tape has
\* exactly 6 words of which exactly 4 are topics; then it yields exactly one
\* record with from word[2], to word[3], token_id word[4] and value word[5];
\* otherwise it yields non-extraction with a warning.
C6_SingleIdDecoded ==
  Done("extract") /\ IsSingleIdLog(receipt_log) =>
    LET tape == Tape(receipt_log) IN
    /\ ret.kind = "list" <=> (Len(tape) = 6 /\ Len(receipt_log.topics) = 4)
    /\ ret.kind = "list" =>
         /\ Len(ret.transfers) = 1
         /\ ret.transfers[1].from_address = LowAddress(At(tape, 2))
         /\ ret.transfers[1].to_address = LowAddress(At(tape, 3))
         /\ ret.transfers[1].token_id = hex_to_dec(At(tape, 4))
         /\ ret.transfers[1].value = hex_to_dec(At(tape, 5))
    /\ ret.kind /= "list" => NoExtraction(1)

C6_Witness ==
  /\ Done("extract") /\ IsSingleIdLog(receipt_log)
  /\ ret.kind = "list"
  /\ ret.transfers[1].token_id = 64
  /\ ret.transfers[1].value = 192

DecoderOf(log) ==
  IF HasSignature(log, TRANSFER_EVENT_TOPIC) THEN "transfer"
  ELSE IF HasSignature(log, TRANSFER_ERC1155_EVENT_TOPIC) THEN "erc1155"
  ELSE IF HasSignature(log, TRANSFER_BATCH_ERC1155_EVENT_TOPIC) THEN "batch"
  ELSE "none"

\* C7: the dispatcher runs at most one decoder per log: with topics null or
\* empty or a first topic that is none of the three signatures, compared
\* without regard to letter case, no decoder runs, the output is empty and no
\* warning is logged; with a first topic that is one of the signatures in any
\* letter case, the decoder of that signature runs and no other.
C7_DispatchBySignature ==
  Done("extract") =>
    /\ ret.decoder = DecoderOf(receipt_log)
    /\ (DecoderOf(receipt_log) = "none" => NoExtraction(0))

\* a TransferSingle signature in upper-case letters reaches the single-id decoder
C7_Witness ==
  /\ Done("extract")
  /\ HasTopics(receipt_log)
  /\ receipt_log.topics[1] /= TRANSFER_ERC1155_EVENT_TOPIC
  /\ ret.decoder = "erc1155"
  /\ ret.kind = "list"
  /\ Len(ret.transfers) = 1

HasPrefix(s) == s /= None /\ Len(s) >= 2 /\ s[1] = "0" /\ s[2] = "x"

\* a string without its "0x" prefix, when it has one
Body(s) == IF HasPrefix(s) THEN SliceFrom(s, 2) ELSE s

\* C8: for a blob of 64*k hex characters, given with the "0x" prefix or
\* without it, split_to_words returns k words of the form "0x" + 64
\* characters, in order, whose bodies concatenated are the blob minus its
\* prefix; an empty or "0x"-only blob gives the empty sequence.
C8_SplitRoundTrip ==
  Done("split") /\ data /= None /\ Len(Body(data)) % WordChars = 0 =>
    /\ Len(words) = Len(Body(data)) \div WordChars
    /\ \A i \in 1..Len(words) : HasPrefix(words[i]) /\ Len(words[i]) = WordChars + 2
    /\ Concat([i \in 1..Len(words) |-> SliceFrom(words[i], 2)]) = Body(data)

\* C9: every record returned by extract_transfer_from_log has the log's
\* normalized address as token_address, from_address, to_address and value
\* present, token_id present exactly when the single-id or batch decoder made
\* it, and the log's transaction_hash, log_index and block_number.
C9_RecordInvariant ==
  Done("extract") =>
    \A i \in 1..Len(ret.transfers) :
      LET t == ret.transfers[i] IN
      /\ t.token_address = lower(receipt_log.address)
      /\ t.from_address /= None
      /\ t.to_address /= None
      /\ t.value /= NoneInt
      /\ t.token_id /= NoneInt <=> ret.decoder \in {"erc1155", "batch"}
      /\ t.transaction_hash = receipt_log.transaction_hash
      /\ t.log_index = receipt_log.log_index
      /\ t.block_number = receipt_log.block_number

\* a single-transfer record
C9_Witness ==
  /\ Done("extract")
  /\ ret.decoder = "transfer"
  /\ Len(ret.transfers) = 1
  /\ ret.transfers[1].token_address /= receipt_log.address

\* C10: word_to_address returns None for None; for a word of at least 40
\* characters after its "0x" prefix it returns the normalization of "0x"
\* followed by the word's last 40 characters; for a shorter word it
\* normalizes the whole input, so that no prefix ends up inside the
\* 40-character body.
C10_WordToAddress ==
  Done("address") =>
    /\ param = None => address = None
    /\ param /= None /\ Len(Body(param)) >= AddressChars =>
         address = lower(Prefix0x \o SliceLast(Body(param), AddressChars))
    /\ param /= None /\ Len(Body(param)) < AddressChars =>
         address = lower(param)

====
